---- MODULE Spec2Model ----
(***************************************************************************)
(* A model of the session registry of package sessions (src/sessions.go):  *)
(* the per-request Registry, the registry pool, Registry.Get,              *)
(* Registry.Save, Session.Save, the package-level Save, and the request    *)
(* lifecycle GetRegistry ... close (Spec, SpecMisuse); the flashes of a    *)
(* session (SpecFlash); MultiError.Error (SpecMultiError) and NewCookie    *)
(* (SpecNewCookie).                                                        *)
(*                                                                         *)
(* Objects that Go reaches through pointers are named by the call that    *)
(* allocated them: a *Registry by the request whose GetRegistry made the   *)
(* pool allocate it, a *Session by the request, the name and the number of *)
(* the store.New call that built it.  A request is identified with its     *)
(* *fasthttp.RequestCtx.  The handler of one request                       *)
(* runs on one goroutine, so its calls are sequential; calls of different  *)
(* requests touch disjoint objects except for the pool (sync.Pool, whose   *)
(* Get and Put are atomic) and the context table, so every call is one     *)
(* atomic action and the actions of different requests interleave freely.  *)
(***************************************************************************)
EXTENDS Integers, Sequences, FiniteSets, Bags, TLC

\* ------------------------------------------------------------- bounds
MaxSess == 2     \* Session objects the stores may allocate in one run
MaxNew == 2      \* cap of the counter of store.New calls per request and name
MaxFlash == 3    \* AddFlash calls made on the session in one run
MaxErrs == 4     \* length of the MultiError values whose message is formed
\* time.Duration is an int64 count of nanoseconds and time.Second is 10^9 of
\* them; the model keeps the arithmetic and scales the word and the second
\* down: a Duration is a signed word of DurationBits bits, a second is
\* Second ticks
DurationBits == 6
Second == 4

\* nil: as a *RequestCtx or *Registry (requests are numbered from 1), as a
\* *Session, as a Store, as an error
NilPtr == 0
NilSession == << >>
NilStore == "nil"
NoErr == [type |-> "nil"]
\* the request contexts: two requests, handled concurrently
Ctxs == {1, 2}
Stores == {"S1", "S2"}
StoreArgs == Stores \cup {NilStore}
\* the error values a store's New or Save may return
ErrVals == {[type |-> "store", id |-> "E1"]}

\* Default flashes key.
flashesKey == "_flash"
\* the flash keys the application passes, and the flash messages it adds
FlashKeys == {flashesKey, "k"}
FlashValues == {"x", "y"}
\* the application's own keys of Values and what it stores under them
DataKeys == {"user"}
DataValues == {"u1", "u2"}
\* the variadic `vars ...string` of Flashes and AddFlash
FlashVars == {<< >>, <<flashesKey>>, <<"k">>, <<"k", flashesKey>>}

\* the entries of a MultiError: nil, or an error with a message of its own
ErrEntries == {NoErr} \cup {[type |-> "store", id |-> i] : i \in {"E1", "E2", "E3"}}
\* the MultiError values of up to MaxErrs entries
MultiErrors == UNION {[1 .. k -> ErrEntries] : k \in 0 .. MaxErrs}

\* the range of a Duration
MaxDuration == 2 ^ (DurationBits - 1) - 1
MinDuration == - (2 ^ (DurationBits - 1))
\* time.Unix(sec, 0), as ticks since the epoch
Unix(sec) == sec * Second
\* what time.Now() may return
Nows == {Unix(10), Unix(11)}
\* Options.MaxAge: negative, zero, and positive up to the first number of
\* seconds that no Duration holds
MaxAges == -2 .. (MaxDuration \div Second + 1)
\* the values of Options
OptionsValues ==
  [Path : {"", "/"}, Domain : {"", "example.com"}, MaxAge : MaxAges,
   Secure : BOOLEAN, HttpOnly : BOOLEAN]

\* Cookie names are sequences of characters.
TokenChars == {"a", "b"}
Separators == {";"}
CtlChars == {"\t"}
Names == {<<"a">>, <<"b">>, <<"a", ";">>, <<"\t">>}

\* isCookieNameValid: every character is a token character (no control
\* character, no separator).
isCookieNameValid(name) ==
  \A i \in 1 .. Len(name) : name[i] \in TokenChars /\ name[i] \notin (Separators \cup CtlChars)

ValidNames == {n \in Names : isCookieNameValid(n)}

VARIABLES
  registries,    \* the allocated Registry objects: registries[r] = [ctx, sessions]
  registryPool,  \* the bag of Registry objects held by registryPool
  attached,      \* the context table: attached[c] is the registry Set on c
  heap,          \* the allocated Session objects: heap[s] = [name, store]
  reqState,      \* reqState[c]: "running" until the request is cleared
  panicked,      \* a run-time panic has unwound the process
  newCalls,      \* newCalls[c][n]: calls of store.New(_, n) made for request c
  lastStore,     \* lastStore[c][n]: store argument of c's latest Get for n
  ret,           \* the latest call and what it returned
  Values,        \* the Values map of the session whose flashes are followed
  flashLog,      \* what AddFlash was given and what Flashes handed out so far
  args           \* the arguments a function of the package is applied to

\* the registry side of the state
coreVars == <<registries, registryPool, attached, heap, reqState, panicked,
              newCalls, lastStore>>

\* the session and function side of the state
sideVars == <<Values, flashLog, args>>

vars == <<registries, registryPool, attached, heap, reqState, panicked,
          newCalls, lastStore, ret, Values, flashLog, args>>

\* ------------------------------------------------------------ helpers
\* the empty map (make(map[string]sessionInfo))
EmptyMap == << >>

\* fmt.Errorf: the message as the sequence of its parts
Errorf(parts) == [type |-> "errorString", msg |-> parts]

\* Get(ctx): the registry attached to the context, or nil
Get(c) == attached[c]

\* Set(ctx, registry)
Set(table, c, r) == [table EXCEPT ![c] = r]

\* NewSession(store, name)
NewSession(store, name) == [name |-> name, store |-> store]

\* &Registry{}: the pool's New
NewRegistry == [ctx |-> NilPtr, sessions |-> EmptyMap]

\* the Registry object the pool allocates for request c's GetRegistry
RegistryId(c) == c

\* the Session object built by the k-th store.New(_, name) of request c
SessionId(c, name, k) == <<c, name, k>>

\* the request whose Get built session s
Creator(s) == s[1]

\* the orders in which a range over a Go map may visit the key set S
Perms(S) ==
  {f \in [1 .. Cardinality(S) -> S] : \A i, j \in 1 .. Cardinality(S) : f[i] = f[j] => i = j}

\* the shape of the state: Registry{ctx, sessions}, sessionInfo{s, e},
\* Session{name, store}, the pool and the context table
TypeOK ==
  /\ DOMAIN registries \subseteq {RegistryId(c) : c \in Ctxs}
  /\ \A r \in DOMAIN registries :
       /\ registries[r].ctx \in Ctxs \cup {NilPtr}
       /\ DOMAIN registries[r].sessions \subseteq Names
       /\ \A n \in DOMAIN registries[r].sessions :
            /\ registries[r].sessions[n].s \in DOMAIN heap
            /\ registries[r].sessions[n].e \in {NoErr} \cup ErrVals
  /\ IsABag(registryPool)
  /\ BagToSet(registryPool) \subseteq DOMAIN registries
  /\ attached \in [Ctxs -> DOMAIN registries \cup {NilPtr}]
  /\ \A s \in DOMAIN heap : heap[s].name \in Names /\ heap[s].store \in StoreArgs
  /\ reqState \in [Ctxs -> {"running", "done"}]
  /\ panicked \in BOOLEAN
  /\ newCalls \in [Ctxs -> [Names -> 0 .. MaxNew]]
  /\ lastStore \in [Ctxs -> [Names -> StoreArgs \cup {"none"}]]
  /\ DOMAIN Values \subseteq FlashKeys \cup DataKeys
  /\ \A k \in DOMAIN Values \cap DataKeys : Values[k] \in DataValues
  /\ \A k \in DOMAIN Values \cap FlashKeys :
       Values[k] \in UNION {[1 .. n -> FlashValues] : n \in 1 .. MaxFlash}
  /\ args.op \in {"none", "Error", "NewCookie"}

\* before the first request: nothing allocated, the pool empty
InitRegistry ==
  /\ registries = << >>
  /\ registryPool = EmptyBag
  /\ attached = [c \in Ctxs |-> NilPtr]
  /\ heap = << >>
  /\ reqState = [c \in Ctxs |-> "running"]
  /\ panicked = FALSE
  /\ newCalls = [c \in Ctxs |-> [n \in Names |-> 0]]
  /\ lastStore = [c \in Ctxs |-> [n \in Names |-> "none"]]
  /\ ret = [op |-> "init"]

\* `Values: make(map[interface{}]interface{})` of NewSession; nothing added
\* to the flashes or read from them yet
InitSession ==
  /\ Values = EmptyMap
  /\ flashLog = [unread |-> [k \in FlashKeys |-> << >>], added |-> EmptyBag, read |-> EmptyBag]

\* no function of the package is under call
NoArgs == [op |-> "none"]

Init ==
  /\ InitRegistry
  /\ InitSession
  /\ args = NoArgs

\* ------------------------------------------------------- GetRegistry
\* (mutant) the attached registry is never found
HasRegistryNever(c) == FALSE

\* `registry = Get(ctx); registry != nil`
HasRegistry(c) == Get(c) # NilPtr

\* what registryPool.Get() may return: any pooled object, or (the pool being
\* empty or ignored) a fresh object from the pool's New
PoolChoices(c) == BagToSet(registryPool) \cup {RegistryId(c)}

\* (mutant) the object handed out stays in the pool
PoolTakeKeeps(pool, r) == pool

\* registryPool.Get() removes the object it returns from the pool
PoolTake(pool, r) == IF BagIn(r, pool) THEN pool (-) SetToBag({r}) ELSE pool

\* registryPool.Put(r)
PoolPut(pool, r) == pool (+) SetToBag({r})

\* (mutant) the map of the previous request is kept
MakeSessionsKeeps(old) == old

\* `registry.sessions = make(map[string]sessionInfo)`
MakeSessions(old) == EmptyMap

\* The registries, pool and context table after GetRegistry(c) took r.
Acquire(c, r) ==
  LET regs0 == IF r \in DOMAIN registries THEN registries ELSE (r :> NewRegistry) @@ registries
  IN [registries |-> [regs0 EXCEPT ![r] = [ctx |-> c, sessions |-> MakeSessions(@.sessions)]],
      registryPool |-> PoolTake(registryPool, r),
      attached |-> Set(attached, c, r)]

GetRegistry(c) ==
  /\ ~panicked
  /\ reqState[c] = "running"
  /\ IF HasRegistry(c)
       THEN /\ ret' = [op |-> "GetRegistry", ctx |-> c, registry |-> Get(c), acquired |-> FALSE]
            /\ UNCHANGED <<registries, registryPool, attached>>
       ELSE \E r \in PoolChoices(c) :
              LET st == Acquire(c, r) IN
              /\ registries' = st.registries
              /\ registryPool' = st.registryPool
              /\ attached' = st.attached
              /\ ret' = [op |-> "GetRegistry", ctx |-> c, registry |-> r, acquired |-> TRUE]
  /\ UNCHANGED <<heap, reqState, panicked, newCalls, lastStore>>
  /\ UNCHANGED sideVars

\* ------------------------------------------------------ Registry.Get
\* (mutant) no name is rejected
RejectsNever(name) == FALSE

\* `if !isCookieNameValid(name)`
Rejects(name) == ~isCookieNameValid(name)

\* (mutant) the lookup never finds the name
RegisteredNever(sessions, name) == FALSE

\* `info, ok := r.sessions[name]`: ok
Registered(sessions, name) == name \in DOMAIN sessions

\* (mutant) the recorded error is dropped
CachedNoErr(info) == [s |-> info.s, e |-> NoErr]

\* `session, err = info.s, info.e`
Cached(info) == [s |-> info.s, e |-> info.e]

\* (mutant) the session keeps the name the store gave it
StampSkip(h, s, name) == h

\* `session.name = name`
Stamp(h, s, name) == [h EXCEPT ![s].name = name]

\* (mutant) the pair is written over every entry of the map as well
RecordEverywhere(sessions, name, s, e) ==
  [n \in DOMAIN sessions \cup {name} |-> [s |-> s, e |-> e]]

\* `r.sessions[name] = sessionInfo{s: session, e: err}`
Record(sessions, name, s, e) == (name :> [s |-> s, e |-> e]) @@ sessions

\* (mutant) the back-reference is left as the store built it
BindStoreSkip(h, s, store) == h

\* `session.store = store`
BindStore(h, s, store) == [h EXCEPT ![s].store = store]

\* what store.New(ctx, name) may do: build a session under a name of the
\* store's choosing and return it with or without an error, or return no
\* session and an error
NewOutcomes ==
  {[session |-> TRUE, err |-> e, given |-> g] : e \in {NoErr} \cup ErrVals, g \in ValidNames}
    \cup {[session |-> FALSE, err |-> e, given |-> << >>] : e \in ErrVals}

\* r.Get(store, name), called by the handler of request c on its registry
RegistryGet(c, store, name) ==
  /\ ~panicked
  /\ reqState[c] = "running"
  /\ Get(c) # NilPtr
  /\ LET r == Get(c)
         reg == registries[r]
     IN
     IF Rejects(name)
       THEN /\ ret' = [op |-> "RegistryGet", ctx |-> c, registry |-> r,
                       name |-> name, session |-> NilSession,
                       err |-> Errorf(<<"sessions: invalid character in cookie name: ", name>>),
                       calls |-> << >>]
            /\ UNCHANGED <<registries, heap, panicked, newCalls, lastStore>>
     ELSE IF Registered(reg.sessions, name)
       THEN LET got == Cached(reg.sessions[name]) IN
            /\ heap' = BindStore(heap, got.s, store)
            /\ lastStore' = [lastStore EXCEPT ![c][name] = store]
            /\ ret' = [op |-> "RegistryGet", ctx |-> c, registry |-> r,
                       name |-> name, session |-> got.s, err |-> got.e, calls |-> << >>,
                       was |-> heap[got.s].store]
            /\ UNCHANGED <<registries, panicked, newCalls>>
     ELSE IF store = NilStore
       \* store.New on a nil Store: nil pointer dereference
       THEN /\ panicked' = TRUE
            /\ ret' = [op |-> "panic", in |-> "RegistryGet", ctx |-> c, registry |-> r,
                       name |-> name, calls |-> << >>]
            /\ UNCHANGED <<registries, heap, newCalls, lastStore>>
     ELSE \E o \in NewOutcomes :
            LET call == [store |-> store, ctx |-> reg.ctx, name |-> name] IN
            /\ newCalls[c][name] < MaxNew
            /\ newCalls' = [newCalls EXCEPT ![c][name] = @ + 1]
            /\ IF ~o.session
                 \* `session.name = name` on a nil *Session
                 THEN /\ panicked' = TRUE
                      /\ ret' = [op |-> "panic", in |-> "RegistryGet", ctx |-> c, registry |-> r,
                                 name |-> name, calls |-> <<call>>]
                      /\ UNCHANGED <<registries, heap, lastStore>>
                 ELSE LET s == SessionId(c, name, newCalls[c][name] + 1) IN
                      /\ Cardinality(DOMAIN heap) < MaxSess
                      /\ heap' = BindStore(Stamp((s :> NewSession(store, o.given)) @@ heap, s, name), s, store)
                      /\ registries' = [registries EXCEPT ![r].sessions = Record(@, name, s, o.err)]
                      /\ lastStore' = [lastStore EXCEPT ![c][name] = store]
                      /\ ret' = [op |-> "RegistryGet", ctx |-> c, registry |-> r,
                                 name |-> name, session |-> s, err |-> o.err, calls |-> <<call>>,
                                 given |-> o.given]
                      /\ UNCHANGED panicked
  /\ UNCHANGED <<registryPool, attached, reqState>>
  /\ UNCHANGED sideVars

\* ---------------------------------------------------- Registry.close
\* (mutant) the context reference is left set
ClearCtxSkip(regs, r) == regs

\* `r.ctx = nil`
ClearCtx(regs, r) == [regs EXCEPT ![r].ctx = NilPtr]

\* r.close(): the registries and the pool afterwards
close(r) ==
  [registries |-> ClearCtx(registries, r), registryPool |-> PoolPut(registryPool, r)]

\* Clear(ctx), which the application calls at the end of the request's
\* lifetime (ClearHandler): closes the attached registry and detaches it.
Clear(c) ==
  /\ ~panicked
  /\ reqState[c] = "running"
  /\ reqState' = [reqState EXCEPT ![c] = "done"]
  /\ IF Get(c) # NilPtr
       THEN LET st == close(Get(c)) IN
            /\ registries' = st.registries
            /\ registryPool' = st.registryPool
            /\ attached' = Set(attached, c, NilPtr)
            /\ ret' = [op |-> "Clear", ctx |-> c, registry |-> Get(c)]
       ELSE /\ ret' = [op |-> "Clear", ctx |-> c, registry |-> NilPtr]
            /\ UNCHANGED <<registries, registryPool, attached>>
  /\ UNCHANGED <<heap, panicked, newCalls, lastStore>>
  /\ UNCHANGED sideVars

\* ----------------------------------------------------- Registry.Save
\* what a store's Save may return for each session of the map: nil or an error
SaveResults(h, sessions) ==
  {f \in [DOMAIN sessions -> {NoErr} \cup ErrVals] :
     \A n \in DOMAIN sessions : h[sessions[n].s].store = NilStore => f[n] = NoErr}

\* (mutant) a session without a store is passed over in silence
SaveOneSkipsMissing(h, ctx, name, info, result) ==
  IF h[info.s].store = NilStore
    THEN [calls |-> << >>, errs |-> << >>]
    ELSE [calls |-> <<[store |-> h[info.s].store, ctx |-> ctx, session |-> info.s]>>,
          errs |-> IF result # NoErr
                     THEN <<Errorf(<<"sessions: error saving session ", name, " -- ", result>>)>>
                     ELSE << >>]

\* One iteration of the loop for the pair (name, info): the store call it
\* makes and the error it appends, `result` being what the store's Save returns.
SaveOne(h, ctx, name, info, result) ==
  LET session == info.s IN
  IF h[session].store = NilStore
    THEN [calls |-> << >>,
          errs |-> <<Errorf(<<"sessions: missing store for session ", name>>)>>]
    ELSE [calls |-> <<[store |-> h[session].store, ctx |-> ctx, session |-> session]>>,
          errs |-> IF result # NoErr
                     THEN <<Errorf(<<"sessions: error saving session ", name, " -- ", result>>)>>
                     ELSE << >>]

\* (mutant) the loop returns at the first error
RECURSIVE SaveLoopAborts(_, _, _, _, _)
SaveLoopAborts(h, ctx, sessions, order, results) ==
  IF order = << >>
    THEN [calls |-> << >>, errs |-> << >>]
    ELSE LET name == Head(order)
             one == SaveOne(h, ctx, name, sessions[name], results[name])
             rest == SaveLoopAborts(h, ctx, sessions, Tail(order), results)
         IN IF one.errs # << >>
              THEN one
              ELSE [calls |-> one.calls \o rest.calls, errs |-> one.errs \o rest.errs]

\* `for name, info := range r.sessions`, visiting the names in `order`
RECURSIVE SaveLoop(_, _, _, _, _)
SaveLoop(h, ctx, sessions, order, results) ==
  IF order = << >>
    THEN [calls |-> << >>, errs |-> << >>]
    ELSE LET name == Head(order)
             one == SaveOne(h, ctx, name, sessions[name], results[name])
             rest == SaveLoop(h, ctx, sessions, Tail(order), results)
         IN [calls |-> one.calls \o rest.calls, errs |-> one.errs \o rest.errs]

\* `if errMulti != nil { return errMulti }; return nil`
SaveReturn(errMulti) ==
  IF errMulti # << >> THEN [type |-> "MultiError", errs |-> errMulti] ELSE NoErr

\* what r.Save() returns and the store calls it makes
SaveOf(h, reg, order, results) ==
  LET done == SaveLoop(h, reg.ctx, reg.sessions, order, results)
  IN [calls |-> done.calls, err |-> SaveReturn(done.errs)]

\* (mutant) the entries are dropped from the map once saved
RegistrySaveForgets(c) ==
  /\ ~panicked
  /\ reqState[c] = "running"
  /\ Get(c) # NilPtr
  /\ LET r == Get(c)
         reg == registries[r]
     IN /\ \E order \in Perms(DOMAIN reg.sessions) :
           \E results \in SaveResults(heap, reg.sessions) :
             LET out == SaveOf(heap, reg, order, results) IN
             ret' = [op |-> "RegistrySave", ctx |-> c, registry |-> r,
                     results |-> results, calls |-> out.calls, err |-> out.err]
        /\ registries' = [registries EXCEPT ![r].sessions = EmptyMap]
  /\ UNCHANGED <<registryPool, attached, heap, reqState, panicked, newCalls, lastStore>>
  /\ UNCHANGED sideVars

\* r.Save(), called by the handler of request c on its registry
RegistrySave(c) ==
  /\ ~panicked
  /\ reqState[c] = "running"
  /\ Get(c) # NilPtr
  /\ LET r == Get(c)
         reg == registries[r]
     IN \E order \in Perms(DOMAIN reg.sessions) :
        \E results \in SaveResults(heap, reg.sessions) :
          LET out == SaveOf(heap, reg, order, results) IN
          ret' = [op |-> "RegistrySave", ctx |-> c, registry |-> r,
                  results |-> results, calls |-> out.calls, err |-> out.err]
  /\ UNCHANGED <<registries, registryPool, attached, heap, reqState, panicked,
                 newCalls, lastStore>>
  /\ UNCHANGED sideVars

\* Save(ctx): GetRegistry(ctx).Save()
Save(c) ==
  /\ ~panicked
  /\ reqState[c] = "running"
  /\ \E r \in (IF HasRegistry(c) THEN {Get(c)} ELSE PoolChoices(c)) :
       LET st == IF HasRegistry(c)
                   THEN [registries |-> registries, registryPool |-> registryPool,
                         attached |-> attached]
                   ELSE Acquire(c, r)
           reg == st.registries[r]
       IN /\ registries' = st.registries
          /\ registryPool' = st.registryPool
          /\ attached' = st.attached
          /\ \E order \in Perms(DOMAIN reg.sessions) :
             \E results \in SaveResults(heap, reg.sessions) :
               LET out == SaveOf(heap, reg, order, results) IN
               ret' = [op |-> "Save", ctx |-> c, registry |-> r,
                       results |-> results, calls |-> out.calls, err |-> out.err]
  /\ UNCHANGED <<heap, reqState, panicked, newCalls, lastStore>>
  /\ UNCHANGED sideVars

\* ------------------------------------------------------ Session.Save
\* (mutant) the store's error comes back wrapped
SessionSaveWraps(c, s) ==
  /\ ~panicked
  /\ reqState[c] = "running"
  /\ Get(c) # NilPtr
  /\ \E n \in DOMAIN registries[Get(c)].sessions : registries[Get(c)].sessions[n].s = s
  /\ heap[s].store # NilStore
  /\ \E result \in {NoErr} \cup ErrVals :
       ret' = [op |-> "SessionSave", ctx |-> c, session |-> s, result |-> result,
               calls |-> <<[store |-> heap[s].store, ctx |-> c, session |-> s]>>,
               err |-> IF result = NoErr THEN NoErr
                       ELSE Errorf(<<"sessions: error saving session ", result>>)]
  /\ UNCHANGED <<registries, registryPool, attached, heap, reqState, panicked, newCalls,
                 lastStore>>
  /\ UNCHANGED sideVars

\* s.Save(ctx), called by the handler of request c on a session it got
SessionSave(c, s) ==
  /\ ~panicked
  /\ reqState[c] = "running"
  /\ Get(c) # NilPtr
  /\ \E n \in DOMAIN registries[Get(c)].sessions : registries[Get(c)].sessions[n].s = s
  /\ IF heap[s].store = NilStore
       \* s.store.Save on a nil Store: nil pointer dereference
       THEN /\ panicked' = TRUE
            /\ ret' = [op |-> "panic", in |-> "SessionSave", ctx |-> c, session |-> s,
                       calls |-> << >>]
       ELSE /\ \E result \in {NoErr} \cup ErrVals :
                 ret' = [op |-> "SessionSave", ctx |-> c, session |-> s, result |-> result,
                         calls |-> <<[store |-> heap[s].store, ctx |-> c, session |-> s]>>,
                         err |-> result]
            /\ UNCHANGED panicked
  /\ UNCHANGED <<registries, registryPool, attached, heap, reqState, newCalls,
                 lastStore>>
  /\ UNCHANGED sideVars

\* ------------------------------------------- Session.Flashes, AddFlash
\* `key := flashesKey; if len(vars) > 0 { key = vars[0] }`
FlashKey(fvars) == IF Len(fvars) > 0 THEN fvars[1] ELSE flashesKey

\* `var flashes []interface{}; if v, ok := s.Values[key]; ok { flashes = v.([]interface{}) }`
\* (the nil slice is the empty sequence)
Stored(values, key) == IF key \in DOMAIN values THEN values[key] ELSE << >>

\* (mutant) the key is left in the map
DeleteSkip(values, key) == values

\* `delete(s.Values, key)`
Delete(values, key) == [k \in DOMAIN values \ {key} |-> values[k]]

\* `append(flashes, value)`
AppendFlash(flashes, value) == Append(flashes, value)

\* s.AddFlash(value, vars...)
AddFlash(value, fvars) ==
  LET key == FlashKey(fvars) IN
  /\ BagCardinality(flashLog.added) < MaxFlash
  /\ Values' = (key :> AppendFlash(Stored(Values, key), value)) @@ Values
  /\ flashLog' = [flashLog EXCEPT !.unread[key] = Append(@, value),
                                  !.added = @ (+) SetToBag({<<key, value>>})]
  /\ ret' = [op |-> "AddFlash", key |-> key, value |-> value]
  /\ UNCHANGED <<coreVars, args>>

\* the bag of the flashes of a slice returned for `key`
RECURSIVE FlashBag(_, _)
FlashBag(key, flashes) ==
  IF flashes = << >> THEN EmptyBag
  ELSE SetToBag({<<key, Head(flashes)>>}) (+) FlashBag(key, Tail(flashes))

\* s.Flashes(vars...)
Flashes(fvars) ==
  LET key == FlashKey(fvars)
      flashes == Stored(Values, key)
  IN
  /\ Values' = IF key \in DOMAIN Values THEN Delete(Values, key) ELSE Values
  /\ flashLog' = [flashLog EXCEPT !.unread[key] = << >>,
                                  !.read = @ (+) FlashBag(key, flashes)]
  /\ ret' = [op |-> "Flashes", key |-> key, flashes |-> flashes]
  /\ UNCHANGED <<coreVars, args>>

\* the application's `session.Values[key] = value` for a key of its own
SetValue(key, value) ==
  /\ Values' = (key :> value) @@ Values
  /\ ret' = [op |-> "SetValue", key |-> key]
  /\ UNCHANGED <<coreVars, flashLog, args>>

NextFlash ==
  \/ \E value \in FlashValues, fvars \in FlashVars : AddFlash(value, fvars)
  \/ \E fvars \in FlashVars : Flashes(fvars)
  \/ \E key \in DataKeys, value \in DataValues : SetValue(key, value)

\* one session and the calls of its flash methods
SpecFlash == Init /\ [][NextFlash]_vars

\* -------------------------------------------------- MultiError.Error
\* e.Error() of an entry: a string, as the sequence of its parts
Message(e) == IF e.type = "errorString" THEN e.msg ELSE <<e.id>>

\* the verb %d of fmt.Sprintf: the decimal digits of n >= 0
Digit(d) == <<"0", "1", "2", "3", "4", "5", "6", "7", "8", "9">>[d + 1]
RECURSIVE Itoa(_)
Itoa(n) == IF n < 10 THEN <<Digit(n)>> ELSE Itoa(n \div 10) \o <<Digit(n % 10)>>

\* (mutant) the message of every entry replaces the one kept
KeepLatest(s, n, e) == Message(e)

\* `if n == 0 { s = e.Error() }`
Keep(s, n, e) == IF n = 0 THEN Message(e) ELSE s

\* `for _, e := range m { if e != nil { ...; n++ } }` from entry i on
RECURSIVE ErrorLoop(_, _, _, _)
ErrorLoop(m, i, s, n) ==
  IF i > Len(m) THEN [s |-> s, n |-> n]
  ELSE IF m[i] # NoErr THEN ErrorLoop(m, i + 1, Keep(s, n, m[i]), n + 1)
  ELSE ErrorLoop(m, i + 1, s, n)

\* the `switch n` and the final Sprintf
ErrorSwitch(s, n) ==
  CASE n = 0 -> <<"(0 errors)">>
    [] n = 1 -> s
    [] n = 2 -> s \o <<" (and 1 other error)">>
    [] OTHER -> s \o <<" (and ">> \o Itoa(n - 1) \o <<" other errors)">>

\* m.Error()
Error(m) == LET done == ErrorLoop(m, 1, << >>, 0) IN ErrorSwitch(done.s, done.n)

\* a call of m.Error() on the MultiError at hand
CallError ==
  /\ args.op = "Error"
  /\ ret' = [op |-> "Error", msg |-> Error(args.m)]
  /\ UNCHANGED <<coreVars, sideVars>>

InitMultiError ==
  /\ InitRegistry
  /\ InitSession
  /\ args \in {[op |-> "Error", m |-> m] : m \in MultiErrors}

NextMultiError == CallError

\* a MultiError value and the call of its Error method
SpecMultiError == InitMultiError /\ [][NextMultiError]_vars

\* ---------------------------------------------------------- NewCookie
\* an int64 product, reduced to the word (two's complement)
Wrap(x) == ((x - MinDuration) % (2 ^ DurationBits)) + MinDuration

\* `&fasthttp.Cookie{}`: no field set, no expiry
EmptyCookie ==
  [key |-> "", value |-> "", path |-> "", domain |-> "", httpOnly |-> FALSE,
   secure |-> FALSE, expire |-> [set |-> FALSE]]

\* cookie.SetExpire(t)
SetExpire(cookie, t) == [cookie EXCEPT !.expire = [set |-> TRUE, at |-> t]]

\* `d := time.Duration(options.MaxAge) * time.Second`
DurationOf(maxAge) == Wrap(maxAge * Second)

\* the `if options.MaxAge > 0 ... else if options.MaxAge < 0 ...`
Expiry(cookie, options, now) ==
  IF options.MaxAge > 0
    THEN SetExpire(cookie, now + DurationOf(options.MaxAge))
  ELSE IF options.MaxAge < 0
    THEN SetExpire(cookie, Unix(1))
  ELSE cookie

\* NewCookie(name, value, options), time.Now() returning `now`
NewCookie(name, value, options, now) ==
  Expiry([EmptyCookie EXCEPT !.key = name, !.value = value, !.path = options.Path,
                             !.domain = options.Domain, !.httpOnly = options.HttpOnly,
                             !.secure = options.Secure],
         options, now)

\* a call of NewCookie on the arguments at hand
CallNewCookie ==
  /\ args.op = "NewCookie"
  /\ ret' = [op |-> "NewCookie",
             cookie |-> NewCookie(args.name, args.value, args.options, args.now)]
  /\ UNCHANGED <<coreVars, sideVars>>

InitNewCookie ==
  /\ InitRegistry
  /\ InitSession
  /\ args \in [op : {"NewCookie"}, name : {"sid"}, value : {"", "v"},
                options : OptionsValues, now : Nows]

NextNewCookie == CallNewCookie

\* the arguments of NewCookie and the call
SpecNewCookie == InitNewCookie /\ [][NextNewCookie]_vars

\* ------------------------------------------------------ specification
Next ==
  \/ \E c \in Ctxs : GetRegistry(c)
  \/ \E c \in Ctxs, store \in StoreArgs, name \in Names : RegistryGet(c, store, name)
  \/ \E c \in Ctxs : RegistrySave(c)
  \/ \E c \in Ctxs : Save(c)
  \/ \E c \in Ctxs, s \in DOMAIN heap : SessionSave(c, s)
  \/ \E c \in Ctxs : Clear(c)

Spec == Init /\ [][Next]_vars

\* ---------------------------------------- close before the request ends
\* r.close() on the registry of request c while c is running: c's context
\* keeps the registry, and c's handler goes on using it
PrematureClose(c) ==
  /\ ~panicked
  /\ reqState[c] = "running"
  /\ Get(c) # NilPtr
  /\ registries[Get(c)].ctx = c
  /\ LET st == close(Get(c)) IN
     /\ registries' = st.registries
     /\ registryPool' = st.registryPool
  /\ ret' = [op |-> "close", ctx |-> c, registry |-> Get(c)]
  /\ UNCHANGED <<attached, heap, reqState, panicked, newCalls, lastStore>>
  /\ UNCHANGED sideVars

\* Two running requests on one Registry: their goroutines read and write one
\* map without synchronisation.  Besides the interleavings of whole calls,
\* the runtime may stop the process ("concurrent map read and map write").
RaceFault(c1, c2) ==
  /\ ~panicked
  /\ c1 # c2
  /\ reqState[c1] = "running" /\ reqState[c2] = "running"
  /\ Get(c1) # NilPtr /\ Get(c1) = Get(c2)
  /\ panicked' = TRUE
  /\ ret' = [op |-> "panic", in |-> "race", registry |-> Get(c1), calls |-> << >>]
  /\ UNCHANGED <<registries, registryPool, attached, heap, reqState, newCalls, lastStore>>
  /\ UNCHANGED sideVars

\* the calls of the requests (every Get with the one store S1, on a valid
\* name), and the early close
NextMisuse ==
  \/ \E c \in Ctxs : GetRegistry(c)
  \/ \E c \in Ctxs, name \in ValidNames : RegistryGet(c, "S1", name)
  \/ \E c \in Ctxs : RegistrySave(c)
  \/ \E c \in Ctxs : Clear(c)
  \/ \E c \in Ctxs : PrematureClose(c)
  \/ \E c1, c2 \in Ctxs : RaceFault(c1, c2)

\* the requests, with close also called on a registry still in use
SpecMisuse == Init /\ [][NextMisuse]_vars

\* =================================================================
\* Properties
\* =================================================================
Running(c) == reqState[c] = "running"

\* the entry of request c's registry for name n (when there is one)
Entry(c, n) == registries[attached[c]].sessions[n]
HasEntry(c, n) == attached[c] # NilPtr /\ n \in DOMAIN registries[attached[c]].sessions

\* a step in which request c's Registry.Get for name n returns
GetReturns(c, n) == ret'.op = "RegistryGet" /\ ret'.ctx = c /\ ret'.name = n

\* ----------------------------------------------------------------- C1
NewOncePerName == \A c \in Ctxs, n \in Names : newCalls[c][n] <= 1

GetReturnsRecorded ==
  (ret.op = "RegistryGet" /\ isCookieNameValid(ret.name)) =>
    /\ ret.name \in DOMAIN registries[ret.registry].sessions
    /\ ret.session = registries[ret.registry].sessions[ret.name].s

LaterGetSameSession ==
  \A c \in Ctxs, n \in ValidNames :
    (HasEntry(c, n) /\ GetReturns(c, n)) =>
      /\ ret'.session = Entry(c, n).s
      /\ newCalls' = newCalls
      /\ registries' = registries

\* C1: within one request, the first Get for a valid name returns the session
\* it records under that name, every later Get for that name returns that
\* very session whatever store is passed, and store.New is called at most
\* once per name per request (a Get for a registered name calls no New).
C1_SameSessionOneNew ==
  []NewOncePerName /\ []GetReturnsRecorded /\ [][LaterGetSameSession]_vars

\* a later Get, with another store than the session had, returned the
\* session of the first Get
C1_Witness ==
  /\ ret.op = "RegistryGet"
  /\ isCookieNameValid(ret.name)
  /\ ret.calls = << >>
  /\ ret.was # heap[ret.session].store
  /\ ret.session = registries[ret.registry].sessions[ret.name].s
  /\ newCalls[ret.ctx][ret.name] = 1

\* ----------------------------------------------------------------- C2
NoInvalidEntry ==
  \A r \in DOMAIN registries : \A n \in DOMAIN registries[r].sessions : isCookieNameValid(n)

InvalidGetRejected ==
  (ret'.op = "RegistryGet" /\ ~isCookieNameValid(ret'.name)) =>
    /\ ret'.session = NilSession
    /\ ret'.err # NoErr
    /\ ret'.calls = << >>
    /\ UNCHANGED <<registries, registryPool, attached, heap, newCalls, lastStore>>

\* C2: Registry.Get with a name that is no valid cookie name returns a nil
\* session and a non-nil error, calls no store, and changes nothing: no
\* registry ever holds an entry under an invalid name, and the entries,
\* sessions and store references are as they were before the call.
C2_InvalidNameRejected == []NoInvalidEntry /\ [][InvalidGetRejected]_vars

\* an invalid name was rejected by a registry that holds an entry
C2_Witness ==
  /\ ret.op = "RegistryGet"
  /\ ~isCookieNameValid(ret.name)
  /\ ret.session = NilSession
  /\ ret.err # NoErr
  /\ registries[ret.registry].sessions # EmptyMap

\* ----------------------------------------------------------------- C3
FirstErrorRecorded ==
  (ret.op = "RegistryGet" /\ isCookieNameValid(ret.name)) =>
    registries[ret.registry].sessions[ret.name].e = ret.err

ErrorReplayed ==
  \A c \in Ctxs, n \in ValidNames :
    (HasEntry(c, n) /\ GetReturns(c, n)) =>
      /\ ret'.err = Entry(c, n).e
      /\ ret'.session = Entry(c, n).s
      /\ newCalls' = newCalls

RecordedErrorStable ==
  \A r \in DOMAIN registries : \A n \in DOMAIN registries[r].sessions :
    n \in DOMAIN registries'[r].sessions =>
      registries'[r].sessions[n].e = registries[r].sessions[n].e

\* C3: the error store.New returned at the first Get for a name is recorded
\* with the session; every later Get for that name in the request returns
\* that session and that error, whichever store is passed and without a
\* store call, and the recorded error of an entry never changes.
C3_ErrorReplayed ==
  []FirstErrorRecorded /\ [][ErrorReplayed]_vars /\ [][RecordedErrorStable]_vars

\* a later Get, with another store, returned the error of the first Get
C3_Witness ==
  /\ ret.op = "RegistryGet"
  /\ isCookieNameValid(ret.name)
  /\ ret.calls = << >>
  /\ ret.err \in ErrVals
  /\ ret.was # heap[ret.session].store
  /\ registries[ret.registry].sessions[ret.name].e = ret.err

\* ----------------------------------------------------------------- C4
StoreIsLatest ==
  \A c \in Ctxs : (Running(c) /\ attached[c] # NilPtr) =>
    \A n \in DOMAIN registries[attached[c]].sessions :
      heap[Entry(c, n).s].store = lastStore[c][n]

SaveUsesLatest ==
  ret.op \in {"RegistrySave", "Save", "SessionSave"} =>
    \A i \in DOMAIN ret.calls :
      /\ ret.calls[i].store = lastStore[ret.ctx][heap[ret.calls[i].session].name]
      /\ \A j \in DOMAIN ret.calls : ret.calls[j].session = ret.calls[i].session => j = i

\* C4: every registered session's store back-reference is the store argument
\* of the latest Get for its name, also when that Get found the name
\* registered; the calls Registry.Save, Save and Session.Save make for a
\* session go to that store and to no other.
C4_StoreIsLatest == StoreIsLatest /\ SaveUsesLatest

\* a Get for a registered name moved the session from one store to another
C4_Witness ==
  /\ ret.op = "RegistryGet"
  /\ ret.calls = << >>
  /\ isCookieNameValid(ret.name)
  /\ ret.was \in Stores
  /\ heap[ret.session].store \in Stores
  /\ ret.was # heap[ret.session].store
  /\ lastStore[ret.ctx][ret.name] = heap[ret.session].store

\* ----------------------------------------------------------------- C5
\* the latest call was a batch save; the map it ranged over; the store a
\* session of that map has; the names whose save failed
SaveReturned == ret.op \in {"RegistrySave", "Save"}
SavedMap == registries[ret.registry].sessions
StoreOf(n) == heap[SavedMap[n].s].store
Failed == {n \in DOMAIN SavedMap : StoreOf(n) = NilStore \/ ret.results[n] # NoErr}
CallsFor(n) == {i \in DOMAIN ret.calls : ret.calls[i].session = SavedMap[n].s}
ErrorsOf(err) == IF err = NoErr THEN << >> ELSE err.errs
ErrorsNaming(n) == {i \in DOMAIN ErrorsOf(ret.err) : ErrorsOf(ret.err)[i].msg[2] = n}

\* C5: Registry.Save attempts every registered session once whatever the
\* others do: store.Save is called exactly once for each session that has a
\* store, the result is nil exactly when no save failed, and otherwise a
\* MultiError with one entry per failed session, naming that session.
C5_SaveAttemptsAll ==
  SaveReturned =>
    /\ \A n \in DOMAIN SavedMap :
         Cardinality(CallsFor(n)) = (IF StoreOf(n) = NilStore THEN 0 ELSE 1)
    /\ Len(ret.calls) = Cardinality({n \in DOMAIN SavedMap : StoreOf(n) # NilStore})
    /\ (ret.err = NoErr) <=> (Failed = {})
    /\ Failed # {} =>
         /\ ret.err.type = "MultiError"
         /\ Len(ret.err.errs) = Cardinality(Failed)
         /\ \A n \in Failed : Cardinality(ErrorsNaming(n)) = 1

\* the save of the first session visited failed and the second session was
\* saved all the same
C5_Witness ==
  /\ ret.op = "RegistrySave"
  /\ Len(ret.calls) = 2
  /\ ret.results[heap[ret.calls[1].session].name] # NoErr
  /\ ret.results[heap[ret.calls[2].session].name] = NoErr
  /\ ret.err # NoErr
  /\ Len(ret.err.errs) = 1
  /\ ret.err.errs[1].msg[2] = heap[ret.calls[1].session].name

\* ----------------------------------------------------------------- C6
MissingStoreError(n) == Errorf(<<"sessions: missing store for session ", n>>)

\* C6: a registered session whose store reference is nil when Registry.Save
\* runs gets one "missing store" error tagged with its name and no store
\* call, and every sibling session that has a store is still saved.
C6_MissingStoreReported ==
  SaveReturned =>
    \A n \in DOMAIN SavedMap : StoreOf(n) = NilStore =>
      /\ ret.err # NoErr
      /\ Cardinality({i \in DOMAIN ErrorsOf(ret.err) :
                        ErrorsOf(ret.err)[i] = MissingStoreError(n)}) = 1
      /\ CallsFor(n) = {}
      /\ \A m \in DOMAIN SavedMap : StoreOf(m) # NilStore =>
           \E i \in CallsFor(m) : ret.calls[i].store = StoreOf(m)

\* a session lost its store through a Get with a nil store, and its sibling
\* was saved
C6_Witness ==
  /\ ret.op = "RegistrySave"
  /\ Cardinality(DOMAIN SavedMap) = 2
  /\ Len(ret.calls) = 1
  /\ \E n \in DOMAIN SavedMap :
       /\ StoreOf(n) = NilStore
       /\ lastStore[ret.ctx][n] = NilStore
       /\ ret.err.errs = <<MissingStoreError(n)>>

\* ----------------------------------------------------------------- C7
AcquiredClean ==
  (ret.op = "GetRegistry" /\ ret.acquired) =>
    registries[ret.registry] = [ctx |-> ret.ctx, sessions |-> EmptyMap]

OwnSessionsOnly ==
  \A c \in Ctxs : (Running(c) /\ attached[c] # NilPtr) =>
    /\ registries[attached[c]].ctx = c
    /\ \A n \in DOMAIN registries[attached[c]].sessions : Creator(Entry(c, n).s) = c

OwnSessionsReturned ==
  /\ (ret.op = "RegistryGet" /\ ret.session # NilSession) => Creator(ret.session) = ret.ctx
  /\ ret.op \in {"RegistrySave", "Save", "SessionSave"} =>
       \A i \in DOMAIN ret.calls :
         Creator(ret.calls[i].session) = ret.ctx /\ ret.calls[i].ctx = ret.ctx

\* C7: a registry GetRegistry takes from the pool comes out with no session
\* entries and bound to the acquiring request's context, and no Get or Save
\* of a request returns or saves a session that another request registered.
C7_PoolReuseIsolated == AcquiredClean /\ OwnSessionsOnly /\ OwnSessionsReturned

\* request c runs on the registry that a finished request a had filled, and
\* its Get returned a session of its own
C7_Witness ==
  \E c, a \in Ctxs :
    /\ a # c
    /\ reqState[a] = "done"
    /\ Running(c)
    /\ attached[c] = RegistryId(a)
    /\ \E s \in DOMAIN heap : Creator(s) = a
    /\ ret.op = "RegistryGet"
    /\ ret.ctx = c
    /\ ret.session # NilSession
    /\ ret.calls # << >>

\* ----------------------------------------------------------------- C8
\* C8 as stated: every registry in the pool has a nil context reference
\* and no session entries.
C8_PooledIsCleared ==
  \A r \in BagToSet(registryPool) :
    registries[r].ctx = NilPtr /\ registries[r].sessions = EmptyMap

PooledCtxNil == \A r \in BagToSet(registryPool) : registries[r].ctx = NilPtr

CloseKeepsMap ==
  \A r \in DOMAIN registries :
    CopiesIn(r, registryPool') > CopiesIn(r, registryPool) =>
      /\ registries'[r].ctx = NilPtr
      /\ registries'[r].sessions = registries[r].sessions

AcquireReplacesMap ==
  \A r \in DOMAIN registries :
    CopiesIn(r, registryPool') < CopiesIn(r, registryPool) =>
      registries'[r].sessions = EmptyMap

\* C8 (amended): with close called once per request, at its end, close clears
\* the context reference only: every registry in the pool has a nil context
\* reference, close leaves the session map as it is, and the map is replaced
\* by an empty one when GetRegistry takes the registry out of the pool.
C8_CloseClearsCtxOnly ==
  []PooledCtxNil /\ [][CloseKeepsMap]_vars /\ [][AcquireReplacesMap]_vars

\* a registry in the pool still holds the entries of the finished request
C8_Witness ==
  \E r \in BagToSet(registryPool) :
    registries[r].ctx = NilPtr /\ registries[r].sessions # EmptyMap

AttachedIsReturned ==
  ret.op = "GetRegistry" => attached[ret.ctx] = ret.registry

SingletonPerRequest ==
  \A c \in Ctxs :
    (ret'.op = "GetRegistry" /\ ret'.ctx = c) =>
      IF attached[c] # NilPtr
        THEN /\ ret'.registry = attached[c]
             /\ UNCHANGED <<registries, registryPool, attached, heap>>
        ELSE LET r == ret'.registry IN
             /\ attached' = [attached EXCEPT ![c] = r]
             /\ registries'[r] = [ctx |-> c, sessions |-> EmptyMap]
             /\ \A q \in DOMAIN registries \ {r} : registries'[q] = registries[q]
             /\ registryPool' = IF BagIn(r, registryPool)
                                  THEN registryPool (-) SetToBag({r})
                                  ELSE registryPool

\* C10: the first GetRegistry on a context takes one registry from the pool
\* (or a new one), gives it an empty session map, binds it to the context
\* and attaches it; every later GetRegistry on the context returns that
\* registry and changes neither the pool nor any session map.
C10_SingletonPerRequest == []AttachedIsReturned /\ [][SingletonPerRequest]_vars

\* a later GetRegistry returned the attached registry with its entries
C10_Witness ==
  /\ ret.op = "GetRegistry"
  /\ ~ret.acquired
  /\ attached[ret.ctx] = ret.registry
  /\ registries[ret.registry].sessions # EmptyMap

\* ---------------------------------------------------------------- C11
\* under every flash key Values holds exactly the flashes added and not yet read
ValuesHoldUnread ==
  \A k \in FlashKeys : Stored(Values, k) = flashLog.unread[k]

\* no flash has been handed out more often than it was added
ReadWithinAdded == flashLog.read \sqsubseteq flashLog.added

\* a step in which Flashes returns
FlashesReturns == ret'.op = "Flashes"

\* Flashes(k) returns the flashes added since the last Flashes(k), in the
\* order of their insertion, and leaves no key k in Values
FlashesHandsOutUnread ==
  FlashesReturns =>
    /\ ret'.flashes = flashLog.unread[ret'.key]
    /\ ret'.key \notin DOMAIN Values'
    /\ \A k \in DOMAIN Values \ {ret'.key} : k \in DOMAIN Values' /\ Values'[k] = Values[k]

\* a Flashes(k) right after a Flashes(k) returns nothing
SecondFlashesEmpty ==
  (ret.op = "Flashes" /\ FlashesReturns /\ ret'.key = ret.key) => ret'.flashes = << >>

\* C11: Flashes(k) returns exactly the values added with AddFlash(v, k) since
\* the last Flashes(k), in insertion order, and removes key k from Values; a
\* Flashes(k) that follows immediately returns nothing; no flash is returned
\* by a later Flashes call once it has been read.
C11_FlashesReadOnce ==
  /\ []ValuesHoldUnread
  /\ []ReadWithinAdded
  /\ [][FlashesHandsOutUnread /\ SecondFlashesEmpty]_vars

\* Flashes("k") has returned two different flashes, in the order they were
\* added, and a flash under the default key is still unread
C11_Witness ==
  /\ ret.op = "Flashes" /\ ret.key = "k"
  /\ ret.flashes = <<"x", "y">>
  /\ flashLog.read = SetToBag({<<"k", "x">>, <<"k", "y">>})
  /\ flashesKey \in DOMAIN Values

\* ---------------------------------------------------------------- C12
\* the non-nil entries of m, in their order
NonNil(m) == SelectSeq(m, LAMBDA e : e # NoErr)

\* the message the claim gives for m
Summary(m) ==
  LET errs == NonNil(m)
      n == Len(errs)
  IN IF n = 0 THEN <<"(0 errors)">>
     ELSE IF n = 1 THEN Message(errs[1])
     ELSE IF n = 2 THEN Message(errs[1]) \o <<" (and 1 other error)">>
     ELSE Message(errs[1]) \o <<" (and ", Digit(n - 1), " other errors)">>

\* C12: the message of a MultiError with n non-nil entries (nil entries are
\* skipped) is "(0 errors)" for n = 0, the first non-nil entry's message for
\* n = 1, that message followed by " (and 1 other error)" for n = 2 and by
\* " (and N-1 other errors)" for n > 2.
C12_ErrorMessage ==
  ret.op = "Error" => ret.msg = Summary(args.m)

\* Error was called on a MultiError that starts with a nil entry and has
\* three errors of different messages
C12_Witness ==
  /\ ret.op = "Error"
  /\ args.m = <<NoErr, [type |-> "store", id |-> "E2"], [type |-> "store", id |-> "E1"],
                [type |-> "store", id |-> "E3"]>>
  /\ ret.msg = <<"E2", " (and ", "2", " other errors)">>

\* ---------------------------------------------------------------- C13
\* the cookie carries the name, the value and the four options as given
FieldsCopied ==
  /\ ret.cookie.key = args.name
  /\ ret.cookie.value = args.value
  /\ ret.cookie.path = args.options.Path
  /\ ret.cookie.domain = args.options.Domain
  /\ ret.cookie.httpOnly = args.options.HttpOnly
  /\ ret.cookie.secure = args.options.Secure

\* MaxAge < 0: a fixed expiry in the past; MaxAge = 0: no expiry
ExpiryPastOrNone ==
  /\ args.options.MaxAge < 0 =>
        ret.cookie.expire = [set |-> TRUE, at |-> Unix(1)] /\ Unix(1) < args.now
  /\ args.options.MaxAge = 0 => ~ret.cookie.expire.set

\* the expiry is the current time plus MaxAge seconds
ExpiryIsNowPlusMaxAge ==
  ret.cookie.expire = [set |-> TRUE, at |-> args.now + args.options.MaxAge * Second]

\* C13: NewCookie copies name, value, Path, Domain, HttpOnly and Secure
\* verbatim; MaxAge > 0 sets the expiry to the current time plus MaxAge
\* seconds, MaxAge < 0 sets a fixed expiry in the past, MaxAge = 0 sets no
\* expiry.
C13_NewCookie ==
  ret.op = "NewCookie" =>
    /\ FieldsCopied
    /\ ExpiryPastOrNone
    /\ args.options.MaxAge > 0 => ExpiryIsNowPlusMaxAge

\* C13, for the MaxAge whose seconds a Duration holds: the same statement
\* with MaxAge > 0 narrowed to MaxAge * Second <= MaxDuration.
C13_WithinDuration ==
  ret.op = "NewCookie" =>
    /\ FieldsCopied
    /\ ExpiryPastOrNone
    /\ (args.options.MaxAge > 0 /\ args.options.MaxAge * Second <= MaxDuration) =>
          ExpiryIsNowPlusMaxAge

\* NewCookie was given a positive MaxAge and returned a cookie that has
\* expired already
C13_Witness ==
  /\ ret.op = "NewCookie"
  /\ args.options.MaxAge > 0
  /\ ret.cookie.expire.set /\ ret.cookie.expire.at < args.now

\* ---------------------------------------------------------------- C14
\* the latest call of Registry.Get, Registry.Save or Session.Save returned
\* to its caller, with an error value (nil or not)
ReturnedNormally ==
  ret.op \in {"RegistryGet", "RegistrySave", "Save", "SessionSave"} => "err" \in DOMAIN ret

\* C14: no operation of the core faults: whatever the store does (New
\* returning a session, a session and an error, or an error and no session;
\* Save succeeding or failing) and whatever store is passed, nil included,
\* Registry.Get, Registry.Save and Session.Save return normally and report
\* every failure as a returned error.
C14_NoFault ==
  /\ ~panicked
  /\ ret.op # "panic"
  /\ ReturnedNormally

\* Registry.Get called store.New, got an error and no session, and panicked
C14_Witness ==
  /\ panicked
  /\ ret.op = "panic" /\ ret.in = "RegistryGet"
  /\ Len(ret.calls) = 1 /\ ret.calls[1].name = ret.name

\* where the core does fault: Registry.Get on a name not yet registered with
\* a nil store or with a store whose New returns no session, and Session.Save
\* on a session whose store is nil; nowhere else
FaultsOnlyOnNil ==
  ret.op = "panic" =>
    \/ ret.in = "RegistryGet" /\ isCookieNameValid(ret.name)
          /\ ret.name \notin DOMAIN registries[ret.registry].sessions
    \/ ret.in = "SessionSave" /\ heap[ret.session].store = NilStore

\* ---------------------------------------------------------------- C15
\* the latest call was a Registry.Save (directly or through Save(ctx))
SaveCalled == ret.op \in {"RegistrySave", "Save"}

\* what the Save just made would have done and returned, had the range over
\* the map visited the names in `order`, the stores answering the same
Replay(order) == SaveOf(heap, registries[ret.registry], order, ret.results)

\* the Error() message of what Registry.Save returns
ErrorOf(err) == IF err.type = "MultiError" THEN Error(err.errs) ELSE << >>

\* C15: multi-error reporting is deterministic: with the registered sessions
\* and the outcomes of their saves fixed, every execution of Registry.Save
\* visits the sessions in the same order and returns a MultiError with the
\* same order of entries and the same Error() message, also when two or more
\* sessions fail.
C15_SaveDeterministic ==
  SaveCalled =>
    \A order \in Perms(DOMAIN registries[ret.registry].sessions) :
      /\ Replay(order).calls = ret.calls
      /\ Replay(order).err = ret.err
      /\ ErrorOf(Replay(order).err) = ErrorOf(ret.err)

\* Registry.Save has failed for two sessions, and another order of the range
\* gives a MultiError with another Error() message
C15_Witness ==
  /\ ret.op = "RegistrySave"
  /\ ret.err.type = "MultiError" /\ Len(ret.err.errs) = 2
  /\ \E order \in Perms(DOMAIN registries[ret.registry].sessions) :
       ErrorOf(Replay(order).err) # ErrorOf(ret.err)

\* what does not depend on the order: the store calls made and the errors
\* collected, as sets, and whether Save returns nil
SaveSameUpToOrder ==
  SaveCalled =>
    \A order \in Perms(DOMAIN registries[ret.registry].sessions) :
      /\ {Replay(order).calls[i] : i \in DOMAIN Replay(order).calls}
            = {ret.calls[i] : i \in DOMAIN ret.calls}
      /\ (Replay(order).err = NoErr) = (ret.err = NoErr)
      /\ ret.err # NoErr =>
            {Replay(order).err.errs[i] : i \in DOMAIN Replay(order).err.errs}
              = {ret.err.errs[i] : i \in DOMAIN ret.err.errs}

\* ---------------------------------------------------------------- C16
\* a step in which a Session.Save returns
SessionSaveReturns == ret'.op = "SessionSave"

\* the one store call of the Session.Save that returns: Save(ctx, s) on the
\* store the session refers to
OneSaveCall ==
  ret'.calls = <<[store |-> heap[ret'.session].store, ctx |-> ret'.ctx, session |-> ret'.session]>>

\* C16: Session.Save(ctx) makes exactly one call, Save(ctx, this session), on
\* the store the session currently refers to, and returns what that call
\* returned, unmodified (nil stays nil, an error is the same error, not
\* wrapped); it changes neither the registry nor the session's Values, name
\* or store reference.
C16_SessionSaveDelegates ==
  [][SessionSaveReturns =>
       /\ OneSaveCall
       /\ ret'.err = ret'.result
       /\ registries' = registries /\ attached' = attached /\ registryPool' = registryPool
       /\ heap' = heap /\ Values' = Values]_vars

\* Session.Save returned the error of store S2, the store the session
\* refers to
C16_Witness ==
  /\ ret.op = "SessionSave"
  /\ ret.err \in ErrVals
  /\ ret.calls[1].store = "S2" /\ heap[ret.session].store = "S2"
  /\ \E c \in Ctxs : newCalls[c][heap[ret.session].name] = 1 /\ Creator(ret.session) = c

\* ---------------------------------------------------------------- C17
\* no two names of one registry lead to the same Session object
EntriesDistinct ==
  \A r \in DOMAIN registries :
    \A n1, n2 \in DOMAIN registries[r].sessions :
      n1 # n2 => registries[r].sessions[n1].s # registries[r].sessions[n2].s

\* the session a Get returns is the session of no other name of the registry
ReturnedIsOwn ==
  (ret.op = "RegistryGet" /\ ret.session # NilSession) =>
    \A n \in DOMAIN registries[ret.registry].sessions \ {ret.name} :
      registries[ret.registry].sessions[n].s # ret.session

\* C17: within one request, the sessions Registry.Get returns for two
\* different valid names are different Session objects (the store's New
\* constructing a new Session on each call), and no sequence of Get calls
\* makes two names share the session of one entry.
C17_DistinctNamesDistinctSessions ==
  EntriesDistinct /\ ReturnedIsOwn

\* a request has registered both valid names, and a further Get has returned
\* the session recorded for one of them
C17_Witness ==
  /\ ret.op = "RegistryGet" /\ ret.calls = << >> /\ ret.session # NilSession
  /\ DOMAIN registries[ret.registry].sessions = ValidNames
  /\ Cardinality(ValidNames) >= 2

\* ---------------------------------------------------------------- C18
\* request c runs on a registry that was closed under it: the registry it
\* holds is not bound to it any more
ClosedEarly(c) ==
  Running(c) /\ attached[c] # NilPtr /\ registries[attached[c]].ctx # c

\* the latest call went through the registry of its request and may have
\* called a store
ThroughRegistry == ret.op \in {"RegistryGet", "RegistrySave", "Save"}

CallsCarryRegistryContext ==
  (ThroughRegistry /\ ClosedEarly(ret.ctx)) =>
    \A i \in DOMAIN ret.calls :
      /\ ret.calls[i].ctx = registries[ret.registry].ctx
      /\ ret.calls[i].ctx # ret.ctx
      /\ ret.registry \in BagToSet(registryPool) => ret.calls[i].ctx = NilPtr

\* a GetRegistry of request b takes from the pool the registry that a
\* running request a still holds
AcquiresHeld(a, b) ==
  /\ a # b
  /\ Running(a) /\ attached[a] # NilPtr
  /\ ret'.op = "GetRegistry" /\ ret'.ctx = b /\ ret'.acquired
  /\ ret'.registry = attached[a]

\* then the sessions a had registered are gone from the registry, and a and
\* b hold one Registry, hence one session map
AcquireDropsAndShares ==
  \A a, b \in Ctxs :
    AcquiresHeld(a, b) =>
      /\ registries'[attached[a]].sessions = EmptyMap
      /\ attached'[a] = attached'[b]

\* a Get of a for a name that is not in the map of the closed registry calls
\* store.New, also when a had registered the name before
GetCallsNewAgain ==
  \A a \in Ctxs, n \in ValidNames :
    (ClosedEarly(a) /\ ~HasEntry(a, n) /\ GetReturns(a, n)) =>
      /\ Len(ret'.calls) = 1
      /\ newCalls'[a][n] = newCalls[a][n] + 1

\* a Get of a for a name that is in the map returns the session recorded
\* there (whichever of the two requests registered it) and calls no store
GetReturnsShared ==
  \A a \in Ctxs, n \in ValidNames :
    (ClosedEarly(a) /\ HasEntry(a, n) /\ GetReturns(a, n)) =>
      /\ ret'.session = Entry(a, n).s
      /\ ret'.calls = << >>

NamesGot(c) == {n \in Names : lastStore[c][n] # "none"}

\* the key set of the registry of a running request is the set of the names
\* its Get has returned a session for, all of them valid
KeysAreNamesGot ==
  \A c \in Ctxs :
    (Running(c) /\ attached[c] # NilPtr) =>
      /\ DOMAIN registries[attached[c]].sessions = NamesGot(c)
      /\ NamesGot(c) \subseteq ValidNames

\* the session recorded under n bears the name n
NamesStamped ==
  \A r \in DOMAIN registries :
    \A n \in DOMAIN registries[r].sessions : heap[registries[r].sessions[n].s].name = n

\* while the request keeps its registry, no step removes an entry or puts
\* another pair in its place
EntriesKept ==
  \A c \in Ctxs :
    (Running(c) /\ attached[c] # NilPtr /\ attached'[c] = attached[c]) =>
      \A n \in DOMAIN registries[attached[c]].sessions :
        /\ n \in DOMAIN registries'[attached[c]].sessions
        /\ registries'[attached[c]].sessions[n] = registries[attached[c]].sessions[n]

\* C19: between GetRegistry and close the key set of the registry is exactly
\* the set of valid names for which Get has been called in this request
\* (Get and Save only add entries, they never remove or replace one), and the
\* session recorded under name n has Name() = n, whatever name the store
\* gave it.
C19_KeysAndNames ==
  /\ []KeysAreNamesGot
  /\ []NamesStamped
  /\ [][EntriesKept]_vars

\* a Get has recorded under its name a session that the store had built
\* under another name, next to an entry recorded before
C19_Witness ==
  /\ ret.op = "RegistryGet" /\ Len(ret.calls) = 1
  /\ ret.given # ret.name
  /\ heap[ret.session].name = ret.name
  /\ Cardinality(DOMAIN registries[ret.registry].sessions) = 2

\* ---------------------------------------------------------------- C20
\* a step in which request c's Registry.Save or Save(ctx) returns
SaveReturns(c) == ret'.op \in {"RegistrySave", "Save"} /\ ret'.ctx = c

\* a Save of a request that has its registry writes nothing: the entries
\* (sessions and recorded errors), the sessions' names and store references
\* and the Values stay as they are, whatever the stores return
SaveWritesNothing ==
  \A c \in Ctxs :
    (SaveReturns(c) /\ HasRegistry(c)) =>
      /\ registries' = registries
      /\ attached' = attached /\ registryPool' = registryPool
      /\ heap' = heap
      /\ Values' = Values

\* the sessions a Save has called a store for
SavedBy(calls) == {calls[i].session : i \in DOMAIN calls}

\* a Save that follows a Save of the same request calls the stores for the
\* same sessions
SecondSaveSame ==
  \A c \in Ctxs :
    (SaveCalled /\ ret.ctx = c /\ SaveReturns(c)) =>
      /\ SavedBy(ret'.calls) = SavedBy(ret.calls)
      /\ Len(ret'.calls) = Len(ret.calls)

\* Save(ctx) for a request with no registered session returns nil, and the
\* context has a registry of zero entries afterwards
EmptySaveNil ==
  \A c \in Ctxs :
    (SaveReturns(c) /\ (HasRegistry(c) => registries[Get(c)].sessions = EmptyMap)) =>
      /\ ret'.err = NoErr /\ ret'.calls = << >>
      /\ attached'[c] = ret'.registry /\ attached'[c] # NilPtr
      /\ registries'[attached'[c]].sessions = EmptyMap
      /\ heap' = heap

\* C20: Registry.Save and Save(ctx) leave the entries of the registry and
\* each session's Values, name, recorded error and store reference
\* unchanged, whether or not saves fail; a second Save in the same request
\* calls store.Save again for exactly the same sessions; Save(ctx) on a
\* context with no registered sessions returns nil and leaves a registry with
\* zero entries attached to the context.
C20_SaveFrame ==
  [][SaveWritesNothing /\ SecondSaveSame /\ EmptySaveNil]_vars

\* a Save(ctx) of a request with two registered sessions has called the
\* stores for both, one save failing and one not, and the entries are still
\* in the registry
C20_Witness ==
  /\ ret.op = "Save"
  /\ Len(ret.calls) = 2
  /\ ret.err # NoErr
  /\ \E n \in DOMAIN ret.results : ret.results[n] = NoErr
  /\ registries[ret.registry].sessions # EmptyMap

\* Save(ctx) was the first call of a request and took from the pool a
\* registry that a finished request had filled; it returned nil and the
\* registry has zero entries
C20_WitnessEmpty ==
  /\ ret.op = "Save" /\ ret.err = NoErr
  /\ registries[ret.registry].sessions = EmptyMap
  /\ ret.registry # RegistryId(ret.ctx)
  /\ \E s \in DOMAIN heap : Creator(s) = ret.registry

====
